---- MODULE Spec2Model ----
(***************************************************************************)
(* A model of src/auto_updater.py, the Helium Browser auto-updater:        *)
(* HeliumUpdater's version comparison, architecture resolution, release    *)
(* query, asset selection, streamed download and installer invocation.     *)
(*                                                                         *)
(* Python strings are TLA+ strings; a character is a string of length 1.   *)
(* Python dicts are functions over the set of keys that are present, so a  *)
(* missing key and dict.get's default are modelled as the code uses them.  *)
(***************************************************************************)
EXTENDS Integers, Sequences, FiniteSets, TLC

VARIABLES
    version1,   \* first argument of the _is_newer_version call under study
    version2,   \* second argument of that call
    cmp,        \* outcome of that call
    machine,    \* what platform.machine() reports on this host
    arch,       \* outcome of the _get_architecture call under study
    self,       \* the HeliumUpdater object's attributes
    reply,      \* what the release API answers to the next request
    last,       \* the most recent completed call and what it returned
    memo,       \* an earlier check_for_updates call a caller remembered
    fs,         \* the temporary directory: the state of each path in it
    dl          \* the download_update call in progress (its local variables)

vars == <<version1, version2, cmp, machine, arch, self, reply, last, memo, fs, dl>>

(***************************************************************************)
(* Bounds of the model.                                                    *)
(***************************************************************************)
\* Most dot-separated segments in a generated version string.
MaxParts == 2
\* Most assets in a generated release.
MaxAssets == 2
\* Most bytes a generated response body holds.
MaxBody == 3
\* Most bytes one read returns (the model's scale for read(8192)).
MaxChunk == 2

(***************************************************************************)
(* Python's str and list operations, as the code uses them.                *)
(***************************************************************************)
Ch(s, i) == SubSeq(s, i, i)

Digits == {"0", "1", "2", "3", "4", "5", "6", "7", "8", "9"}

LowerLetters == "abcdefghijklmnopqrstuvwxyz"
UpperLetters == "ABCDEFGHIJKLMNOPQRSTUVWXYZ"

LowerTable ==
    [c \in { Ch(UpperLetters, i) : i \in 1..Len(UpperLetters) } |->
        Ch(LowerLetters, CHOOSE i \in 1..Len(UpperLetters) : Ch(UpperLetters, i) = c)]

UpperTable ==
    [c \in { Ch(LowerLetters, i) : i \in 1..Len(LowerLetters) } |->
        Ch(UpperLetters, CHOOSE i \in 1..Len(LowerLetters) : Ch(LowerLetters, i) = c)]

\* str.lower() on one character.
LowerCh(c) == IF c \in DOMAIN LowerTable THEN LowerTable[c] ELSE c

\* str.upper() on one character.
UpperCh(c) == IF c \in DOMAIN UpperTable THEN UpperTable[c] ELSE c

RECURSIVE lower(_)
lower(s) == IF s = "" THEN "" ELSE LowerCh(Ch(s, 1)) \o lower(Tail(s))

\* sub in s
Contains(s, sub) ==
    \E i \in 1..(Len(s) - Len(sub) + 1) : SubSeq(s, i, i + Len(sub) - 1) = sub

\* s.endswith(suffix)
EndsWith(s, suffix) ==
    /\ Len(s) >= Len(suffix)
    /\ SubSeq(s, Len(s) - Len(suffix) + 1, Len(s)) = suffix

\* s.lstrip(chars): every leading character that is in chars is removed.
RECURSIVE lstrip(_, _)
lstrip(s, chars) ==
    IF s # "" /\ Contains(chars, Ch(s, 1)) THEN lstrip(Tail(s), chars) ELSE s

\* s.split(sep) for a one-character sep: the list of the pieces between the
\* separators, in order; never empty ("".split(".") is [""]).
RECURSIVE SplitFrom(_, _, _)
SplitFrom(s, sep, piece) ==
    IF s = "" THEN <<piece>>
    ELSE IF Ch(s, 1) = sep THEN <<piece>> \o SplitFrom(Tail(s), sep, "")
    ELSE SplitFrom(Tail(s), sep, piece \o Ch(s, 1))

split(s, sep) == SplitFrom(s, sep, "")

DigitValue(c) ==
    CASE c = "0" -> 0 [] c = "1" -> 1 [] c = "2" -> 2 [] c = "3" -> 3
      [] c = "4" -> 4 [] c = "5" -> 5 [] c = "6" -> 6 [] c = "7" -> 7
      [] c = "8" -> 8 [] c = "9" -> 9

RECURSIVE DecimalValue(_, _)
DecimalValue(s, acc) ==
    IF s = "" THEN acc ELSE DecimalValue(Tail(s), 10 * acc + DigitValue(Ch(s, 1)))

\* int(x) on a string of ASCII digits, letters, '.', '-' and '_': the value of
\* a non-empty run of digits, ValueError on anything else.
int(x) ==
    IF x # "" /\ \A i \in 1..Len(x) : Ch(x, i) \in Digits
    THEN [exc |-> "none", val |-> DecimalValue(x, 0)]
    ELSE [exc |-> "ValueError", val |-> 0]

\* lst.extend([0] * n); [0] * n is the empty list when n <= 0.
RECURSIVE Zeros(_)
Zeros(n) == IF n <= 0 THEN <<>> ELSE <<0>> \o Zeros(n - 1)

extend(lst, n) == lst \o Zeros(n)

max(a, b) == IF a >= b THEN a ELSE b

\* Python's a > b on two lists of ints: the first index where they differ
\* decides; if one is a prefix of the other, the longer one is greater.
RECURSIVE ListGreater(_, _)
ListGreater(a, b) ==
    IF a = <<>> THEN FALSE
    ELSE IF b = <<>> THEN TRUE
    ELSE IF Head(a) # Head(b) THEN Head(a) > Head(b)
    ELSE ListGreater(Tail(a), Tail(b))

(***************************************************************************)
(* HeliumUpdater._is_newer_version                                         *)
(***************************************************************************)
\* [int(x) for x in parts]: the first failing int() raises.
RECURSIVE IntList(_)
IntList(parts) ==
    IF parts = <<>> THEN [exc |-> "none", val |-> <<>>]
    ELSE LET h == int(Head(parts))
             t == IntList(Tail(parts))
         IN  IF h.exc # "none" THEN [exc |-> h.exc, val |-> <<>>]
             ELSE IF t.exc # "none" THEN [exc |-> t.exc, val |-> <<>>]
             ELSE [exc |-> "none", val |-> <<h.val>> \o t.val]

parse_version(v) == IntList(split(split(v, "-")[1], "."))

\* The padding of lines 108-110: both lists are extended to max_len.
PadNone(parts, max_len) == parts
Pad(parts, max_len) == extend(parts, max_len - Len(parts))

\* The except clause of line 113: which exceptions the method absorbs.
CatchesNothing(exc) == FALSE
Catches(exc) == exc = "ValueError"

\* The method's outcome: raised is the exception that escapes ("none" when
\* the method returns), value is what it returns.
_is_newer_version(v1, v2) ==
    LET p1 == parse_version(v1)
        p2 == parse_version(v2)
        exc == IF p1.exc # "none" THEN p1.exc ELSE p2.exc
        max_len == max(Len(p1.val), Len(p2.val))
    IN  IF exc = "none"
        THEN [raised |-> "none",
              value |-> ListGreater(Pad(p1.val, max_len), Pad(p2.val, max_len))]
        ELSE IF Catches(exc) THEN [raised |-> "none", value |-> FALSE]
        ELSE [raised |-> exc, value |-> FALSE]

(***************************************************************************)
(* HeliumUpdater._get_architecture                                         *)
(***************************************************************************)
_get_architecture_case_sensitive(m) ==
    IF m \in {"amd64", "x86_64"} THEN "x64"
    ELSE IF m \in {"arm64", "aarch64"} THEN "arm64"
    ELSE "x64"
_get_architecture(m) ==
    LET a == lower(m)
    IN  IF a \in {"amd64", "x86_64"} THEN "x64"
        ELSE IF a \in {"arm64", "aarch64"} THEN "arm64"
        ELSE "x64"

(***************************************************************************)
(* Python's None, dict.get and truth value of a dict or None.              *)
(***************************************************************************)
None == [None |-> TRUE]

Get(d, key, default) == IF key \in DOMAIN d THEN d[key] ELSE default

\* bool(x) for x a dict or None: None and the empty dict are false.
Truthy(x) == x # None /\ DOMAIN x # {}

(***************************************************************************)
(* HeliumUpdater.__init__                                                  *)
(***************************************************************************)
__init__(current_version, repo_owner, repo_name) ==
    [current_version |-> current_version,
     repo_owner |-> repo_owner,
     repo_name |-> repo_name,
     github_api_url |-> "https://api.github.com/repos/" \o repo_owner \o "/" \o repo_name,
     user_agent |-> "Helium-Browser-Updater/" \o current_version]

(***************************************************************************)
(* HeliumUpdater._make_request.  `answer` is what the network does with    *)
(* the request: [exc |-> "none", json |-> the decoded body] or an          *)
(* exception raised by urlopen, read, decode or json.loads.  HTTPError (a  *)
(* non-2xx status) is a URLError; all of them are Exceptions.              *)
(***************************************************************************)
RequestExceptions == {"URLError", "HTTPError", "TimeoutError", "JSONDecodeError"}

IsInstance(exc, class) ==
    \/ exc = class
    \/ class = "Exception"
    \/ class = "URLError" /\ exc = "HTTPError"

\* except (urllib.error.URLError, json.JSONDecodeError, Exception)
RequestCatchesNamedOnly(exc) ==
    \E class \in {"URLError", "JSONDecodeError"} : IsInstance(exc, class)
RequestCatches(exc) ==
    \E class \in {"URLError", "JSONDecodeError", "Exception"} : IsInstance(exc, class)

_make_request(obj, url, answer) ==
    LET req == [url |-> url,
                headers |-> [User_Agent |-> obj.user_agent,
                             Accept |-> "application/vnd.github.v3+json"],
                timeout |-> 10]
    IN  IF answer.exc = "none"
        THEN [request |-> req, raised |-> "none", result |-> answer.json]
        ELSE IF RequestCatches(answer.exc)
        THEN [request |-> req, raised |-> "none", result |-> None]
        ELSE [request |-> req, raised |-> answer.exc, result |-> None]

(***************************************************************************)
(* HeliumUpdater.check_for_updates                                         *)
(***************************************************************************)
\* Line 77: the architecture marker in one of its three delimiter forms.
HasMarkerAnywhere(name, a) == Contains(name, a)
HasMarkerTwoForms(name, a) == Contains(name, "-" \o a \o "-") \/ Contains(name, "_" \o a \o "_")
HasMarker(name, a) ==
    \/ Contains(name, "_" \o a \o "-")
    \/ Contains(name, "-" \o a \o "-")
    \/ Contains(name, "_" \o a \o "_")

\* Lines 74-81: the loop over the assets; found is (installer_asset, zip_asset)
\* so far, and a later match replaces an earlier one.
RECURSIVE ScanAssets(_, _, _)
ScanAssets(assets, a, found) ==
    IF assets = <<>> THEN found
    ELSE LET asset == Head(assets)
             name == lower(Get(asset, "name", ""))
             next == IF HasMarker(name, a)
                     THEN IF EndsWith(name, "-installer.exe")
                          THEN [found EXCEPT !.installer_asset = asset]
                          ELSE IF EndsWith(name, "-windows.zip")
                          THEN [found EXCEPT !.zip_asset = asset]
                          ELSE found
                     ELSE found
         IN  ScanAssets(Tail(assets), a, next)

\* The attributes of the object after check_for_updates: the method assigns
\* to none of them.
AttributesCachingVersion(obj, latest_version) ==
    [obj EXCEPT !.current_version = latest_version]
AttributesAfterCheck(obj, latest_version) == obj

\* The outcome of one call.  result is the returned dict or None; requests
\* are the requests issued; latest_version is the local of line 62 ("" when
\* the call returned before it); compared says whether _is_newer_version was
\* called, scanned how many assets were examined; attributes is the object
\* afterwards.
check_for_updates(obj, host, answer) ==
    LET r == _make_request(obj, obj.github_api_url \o "/releases/latest", answer)
        latest_release == r.result
        latest_version == lstrip(Get(latest_release, "tag_name", ""), "v")
        newer == _is_newer_version(latest_version, obj.current_version)
        a == _get_architecture(host)
        assets == Get(latest_release, "assets", <<>>)
        found == ScanAssets(assets, a, [installer_asset |-> None, zip_asset |-> None])
        out(result, raised, compared, scanned, attrs) ==
            [result |-> result, raised |-> raised, requests |-> <<r.request>>,
             latest_version |-> IF r.raised = "none" /\ Truthy(latest_release)
                                THEN latest_version ELSE "",
             compared |-> compared, scanned |-> scanned, attributes |-> attrs]
    IN  IF r.raised # "none" THEN out(None, r.raised, FALSE, 0, obj)
        ELSE IF ~Truthy(latest_release) THEN out(None, "none", FALSE, 0, obj)
        ELSE IF latest_version = "" THEN out(None, "none", FALSE, 0, obj)
        ELSE IF newer.raised # "none"
        THEN out(None, newer.raised, TRUE, 0, AttributesAfterCheck(obj, latest_version))
        ELSE IF ~newer.value
        THEN out(None, "none", TRUE, 0, AttributesAfterCheck(obj, latest_version))
        ELSE IF Truthy(found.installer_asset) \/ Truthy(found.zip_asset)
        THEN out([version |-> latest_version,
                  release_notes |-> Get(latest_release, "body", ""),
                  release_url |-> Get(latest_release, "html_url", None),
                  published_at |-> Get(latest_release, "published_at", None),
                  installer |-> found.installer_asset,
                  zip_package |-> found.zip_asset,
                  architecture |-> a],
                 "none", TRUE, Len(assets), AttributesAfterCheck(obj, latest_version))
        ELSE out(None, "none", TRUE, Len(assets), AttributesAfterCheck(obj, latest_version))

(***************************************************************************)
(* The temporary directory.  A path is "absent", a "file" that can be      *)
(* opened for writing and deleted, or "locked": a file that exists and     *)
(* that open(..., 'wb') and unlink() both refuse with PermissionError (on  *)
(* Windows, a file another process holds open, such as an installer that   *)
(* is still running, or a read-only file).                                 *)
(***************************************************************************)
TempDir == "%TEMP%"

\* Path(temp_dir) / filename
local_path(filename) == TempDir \o "\\" \o filename

\* Path.exists()
exists(files, path) == files[path] # "absent"

\* Path.unlink(): the exception it raises and the directory afterwards.
unlink(files, path) ==
    IF files[path] = "absent" THEN [exc |-> "FileNotFoundError", files |-> files]
    ELSE IF files[path] = "locked" THEN [exc |-> "PermissionError", files |-> files]
    ELSE [exc |-> "none", files |-> [files EXCEPT ![path] = "absent"]]

(***************************************************************************)
(* HeliumUpdater.download_update                                           *)
(***************************************************************************)
\* Line 119: installer or zip_package (Python's `or` yields its first
\* operand when that is true, else its second).
SelectAssetWithFallback(update_info) ==
    LET installer == Get(update_info, "installer", None)
    IN  IF Truthy(installer) /\ Get(installer, "browser_download_url", "") # ""
        THEN installer ELSE Get(update_info, "zip_package", None)
SelectAsset(update_info) ==
    LET installer == Get(update_info, "installer", None)
    IN  IF Truthy(installer) THEN installer ELSE Get(update_info, "zip_package", None)

\* Which of the two assets line 119 selected.
SelectedKind(update_info) ==
    IF Truthy(Get(update_info, "installer", None)) THEN "installer"
    ELSE IF Truthy(Get(update_info, "zip_package", None)) THEN "zip_package"
    ELSE "none"

\* The call's local variables while no download is in progress.
IdleDl ==
    [pc |-> "idle", path |-> "", callback |-> FALSE, declared |-> FALSE,
     total_size |-> 0, downloaded |-> 0, chunks |-> 0, handle |-> "none",
     calls |-> <<>>, kind |-> "none", update_info |-> None, url |-> ""]

\* What a finished download_update call leaves in `last`.
DownloadOutcome(d, returned, raised, failed_at) ==
    [op |-> "download_update", returned |-> returned, raised |-> raised,
     failed_at |-> failed_at, path |-> d.path, callback |-> d.callback,
     declared |-> d.declared, total_size |-> d.total_size,
     downloaded |-> d.downloaded, chunks |-> d.chunks,
     handle |-> IF d.handle = "open" THEN "closed" ELSE d.handle,
     calls |-> d.calls, kind |-> d.kind, update_info |-> d.update_info,
     url |-> d.url,
     requests |-> IF d.pc = "idle" THEN 0 ELSE 1]

\* Lines 144-148: one chunk of n bytes has been written; the callback, if it
\* is to be called, is called with the new count.
AfterChunkStale(d, n) ==
    [d EXCEPT !.downloaded = @ + n,
              !.chunks = @ + 1,
              !.calls = IF d.callback /\ d.total_size > 0
                        THEN Append(@, <<d.downloaded, d.total_size>>)
                        ELSE @]
AfterChunk(d, n) ==
    [d EXCEPT !.downloaded = @ + n,
              !.chunks = @ + 1,
              !.calls = IF d.callback /\ d.total_size > 0
                        THEN Append(@, <<d.downloaded + n, d.total_size>>)
                        ELSE @]

\* Lines 151-155: the handler of an exception raised inside the try block,
\* from the locals d.  The with-blocks have closed the file and the response
\* on the way out.
Fail(d, failed_at) ==
    IF exists(fs, d.path)
    THEN LET u == unlink(fs, d.path)
         IN  /\ fs' = u.files
             /\ last' = IF u.exc = "none"
                        THEN DownloadOutcome(d, "None", "none", failed_at)
                        ELSE DownloadOutcome(d, "raised", u.exc, failed_at)
    ELSE /\ fs' = fs
         /\ last' = DownloadOutcome(d, "None", "none", failed_at)

\* Lines 117-129: the call begins; it returns at once when there is nothing
\* to download, raises TypeError when the asset has no name (Path / None),
\* and otherwise goes on to the request.  No call has completed while this
\* one is in progress.
DownloadBegin(update_info, progress_callback) ==
    /\ dl.pc = "idle" /\ reply.exc = "pending"
    /\ LET asset == SelectAsset(update_info)
           d0 == [IdleDl EXCEPT !.callback = progress_callback,
                                !.kind = SelectedKind(update_info),
                                !.update_info = update_info]
       IN  IF ~Truthy(asset) \/ Get(asset, "browser_download_url", "") = ""
           THEN /\ last' = DownloadOutcome(d0, "None", "none", "none")
                /\ dl' = IdleDl
           ELSE IF "name" \notin DOMAIN asset
           THEN /\ last' = DownloadOutcome(d0, "raised", "TypeError", "none")
                /\ dl' = IdleDl
           ELSE /\ dl' = [d0 EXCEPT !.pc = "connect", !.path = local_path(asset.name),
                                    !.url = asset.browser_download_url]
                /\ last' = [op |-> "none"]
    /\ UNCHANGED <<version1, version2, cmp, machine, arch, self, reply, memo, fs>>

\* Lines 132-136: urlopen and the Content-Length header.  The server declares
\* a length n or none; urlopen may raise, and int() raises on a header that
\* is not a number.
DownloadConnect ==
    /\ dl.pc = "connect"
    /\ \/ \E declared \in BOOLEAN, n \in 0..MaxBody :
            /\ declared \/ n = 0
            /\ dl' = [dl EXCEPT !.pc = "open", !.declared = declared, !.total_size = n]
            /\ UNCHANGED <<fs, last>>
       \/ \E failed_at \in {"urlopen", "header"} :
            /\ Fail(dl, failed_at)
            /\ dl' = IdleDl
    /\ UNCHANGED <<version1, version2, cmp, machine, arch, self, reply, memo>>

\* Line 139: open(local_path, 'wb') creates or truncates the file.
DownloadOpen ==
    /\ dl.pc = "open"
    /\ IF fs[dl.path] = "locked"
       THEN /\ Fail(dl, "open")
            /\ dl' = IdleDl
       ELSE /\ fs' = [fs EXCEPT ![dl.path] = "file"]
            /\ dl' = [dl EXCEPT !.pc = "read", !.handle = "open"]
            /\ last' = last
    /\ UNCHANGED <<version1, version2, cmp, machine, arch, self, reply, memo>>

\* The bytes the response can still deliver: http.client clips a read to the
\* declared length; without one the body ends when the server closes.
Deliverable(d) == (IF d.declared THEN d.total_size ELSE MaxBody) - d.downloaded

\* Lines 140-148: one pass of the loop.  read() returns n bytes, at most the
\* chunk size, and an empty chunk when the body has ended or the connection
\* was closed early (http.client reports a short body as its end); read and
\* write may raise.  The callback is taken to return.
DownloadRead ==
    /\ dl.pc = "read"
    /\ \/ \E n \in 1..MaxChunk :
            /\ n <= Deliverable(dl)
            /\ dl' = AfterChunk(dl, n)
            /\ UNCHANGED <<fs, last>>
       \/ /\ last' = DownloadOutcome(dl, "path", "none", "none")
          /\ dl' = IdleDl
          /\ fs' = fs
       \/ \E failed_at \in {"read", "write"} :
            /\ Fail(dl, failed_at)
            /\ dl' = IdleDl
    /\ UNCHANGED <<version1, version2, cmp, machine, arch, self, reply, memo>>

(***************************************************************************)
(* HeliumUpdater.install_update.  `outcome` is what subprocess.run does:   *)
(* the process exits with a status, outlives the timeout (TimeoutExpired)  *)
(* or cannot be started (OSError).                                         *)
(***************************************************************************)
InstallTimeout == 300

\* What subprocess.run does: the process exits with a return code, or run
\* raises (the process outlives the timeout, or cannot be started).
SpawnOutcomes ==
    { [exc |-> "none", returncode |-> c] : c \in {0, 1, 255} }
        \cup { [exc |-> e, returncode |-> 0] : e \in {"TimeoutExpired", "OSError"} }

\* Line 166: result.returncode == 0
ExitIgnored(returncode) == TRUE
ExitOk(returncode) == returncode = 0

\* The outcome of one call: what it returns, the exception that escapes, and
\* the subprocess.run calls it made.
install_update(installer_path, outcome) ==
    IF EndsWith(installer_path, ".exe")
    THEN LET run == [argv |-> <<installer_path, "/S">>, timeout |-> InstallTimeout]
         IN  IF outcome.exc = "none"
             THEN [returned |-> ExitOk(outcome.returncode), raised |-> "none",
                   runs |-> <<run>>]
             ELSE IF IsInstance(outcome.exc, "Exception")
             THEN [returned |-> FALSE, raised |-> "none", runs |-> <<run>>]
             ELSE [returned |-> FALSE, raised |-> outcome.exc, runs |-> <<run>>]
    ELSE IF EndsWith(installer_path, ".zip")
    THEN [returned |-> FALSE, raised |-> "none", runs |-> <<>>]
    ELSE [returned |-> FALSE, raised |-> "none", runs |-> <<>>]

(***************************************************************************)
(* HeliumUpdater.cleanup_download                                          *)
(***************************************************************************)
cleanup_download_unguarded(files, file_path) ==
    LET u == unlink(files, file_path)
    IN  [raised |-> u.exc, files |-> u.files, absorbed |-> "none"]
cleanup_download(files, file_path) ==
    LET u == unlink(files, file_path)
    IN  [raised |-> "none", files |-> u.files, absorbed |-> u.exc]

(***************************************************************************)
(* Values the variables hold while the call they describe has not been     *)
(* made.                                                                   *)
(***************************************************************************)
NoCmp == [called |-> FALSE, raised |-> "none", value |-> FALSE]
NoArch == ""
NoCall == [op |-> "none"]

(***************************************************************************)
(* Inputs of the version comparison: version strings built from segments   *)
(* (numbers, with and without a leading zero, of one and two digits, an    *)
(* empty segment, a non-numeric segment) and an optional pre-release       *)
(* suffix.                                                                 *)
(***************************************************************************)
Segments == {"0", "1", "01", "10", "", "x"}
Suffixes == {"", "-beta.1", "-2"}

RECURSIVE Join(_, _)
Join(parts, sep) ==
    IF Len(parts) = 1 THEN parts[1]
    ELSE parts[1] \o sep \o Join(Tail(parts), sep)

VersionStrings ==
    { Join(parts, ".") \o suffix :
        parts \in UNION { [1..k -> Segments] : k \in 1..MaxParts },
        suffix \in Suffixes }

(***************************************************************************)
(* Inputs of the architecture resolution: machine names in every letter    *)
(* case.                                                                   *)
(***************************************************************************)
MachineNames ==
    {"amd64", "x86_64", "arm64", "aarch64", "i386", "x86", "ia64", "armv7l",
     "arm", "amd64 ", "xamd64", ""}

\* s with the characters at the positions in `up` upper-cased.
RECURSIVE Recase(_, _, _)
Recase(s, up, i) ==
    IF s = "" THEN ""
    ELSE (IF i \in up THEN UpperCh(Ch(s, 1)) ELSE Ch(s, 1)) \o Recase(Tail(s), up, i + 1)

MachineStrings ==
    UNION { { Recase(n, up, 1) : up \in SUBSET (1..Len(n)) } : n \in MachineNames }

(***************************************************************************)
(* Inputs of check_for_updates: the object, the host and the answer of the *)
(* release API.  An answer is an exception or a decoded JSON object: the   *)
(* empty object, or a release with a tag (or none) and a list of assets.   *)
(***************************************************************************)
CurrentVersions == {"1.0.0.0", "1.2.3.4", "1.0"}

Updaters == { __init__(v, "imputnet", "helium-windows") : v \in CurrentVersions }

Hosts == {"AMD64", "ARM64", "x86"}

DownloadBase == "https://github.com/imputnet/helium-windows/releases/download/"

Asset(name) == [name |-> name, browser_download_url |-> DownloadBase \o name]

X64Installer == Asset("helium_1.2.3.4_x64-installer.exe")
X64Archive == Asset("helium_1.2.3.4_x64-windows.zip")
Arm64Installer == Asset("helium_1.2.3.4_arm64-installer.exe")
NoUrlInstaller == [name |-> "helium_1.2.3.4_x64-installer.exe"]

\* The assets of the generated releases: the three real names, a name in
\* upper case with the marker between dashes, a name with the marker between
\* underscores, a name with the marker and another suffix, and a name with
\* the suffix and the architecture not set off as a marker, and an asset
\* without a name.
AssetPool ==
    {X64Installer, X64Archive, Arm64Installer, [size |-> 1024000],
     Asset("Helium-X64-Installer.EXE"),
     Asset("helium_x64_portable-windows.zip"),
     Asset("helium_1.2.3.4_x64-installer.exe.sig"),
     Asset("helium.x64-installer.exe")}

Tags == {"1.2.3.4", "v1.2.3.4", "vv2.0", "1.0.0.0", "v1.0", "0.9.9", "1.2.3-beta.1",
         "v", "latest"}

AssetLists == UNION { [1..k -> AssetPool] : k \in 0..MaxAssets }

Release(tag, assets) ==
    [tag_name |-> tag, body |-> "Test release notes",
     html_url |-> "https://github.com/imputnet/helium-windows/releases/tag/" \o tag,
     published_at |-> "2024-01-01T00:00:00Z", assets |-> assets]

\* A release without a tag_name.
Untagged(assets) ==
    [body |-> "Test release notes",
     html_url |-> "https://github.com/imputnet/helium-windows/releases",
     published_at |-> "2024-01-01T00:00:00Z", assets |-> assets]

Answer(json) == [exc |-> "none", json |-> json]
Failure(exc) == [exc |-> exc, json |-> None]

\* No request is about to be made.
NoAnswer == [exc |-> "pending", json |-> None]

\* The release of test_mock_update_flow.
MockRelease == Release("1.2.3.4", <<X64Installer, X64Archive>>)

Answers ==
    { Failure(e) : e \in RequestExceptions }
        \cup { Answer(<<>>) }
        \cup { Answer(Release(t, l)) : t \in Tags, l \in AssetLists }
        \cup { Answer(Untagged(l)) : l \in AssetLists }

\* The answers the server gives in the runs with several calls.
LiveAnswers ==
    { Failure("TimeoutError"),
      Answer(<<>>),
      Answer(MockRelease),
      Answer(Release("v1.2.3.4", <<Arm64Installer, X64Archive>>)),
      Answer(Release("1.0.0.0", <<X64Installer, X64Archive>>)),
      Answer(Release("2.0", <<NoUrlInstaller, X64Archive>>)) }

(***************************************************************************)
(* Inputs of download_update, install_update and cleanup_download.         *)
(***************************************************************************)
\* What check_for_updates returns for the live answers, and dicts a caller
\* may build: one with neither asset, one whose asset has no name.
UpdateInfos ==
    ({ check_for_updates(u, h, a).result : u \in Updaters, h \in Hosts, a \in LiveAnswers }
        \ {None})
        \cup { [version |-> "1.2.3.4", installer |-> None, zip_package |-> None],
               [version |-> "1.2.3.4",
                installer |-> [browser_download_url |-> DownloadBase \o "unnamed"]] }

Paths ==
    { local_path(a.name) : a \in {X64Installer, X64Archive, Arm64Installer} }

InstallPaths == Paths \cup {"C:\\Users\\u\\SETUP.EXE", "notes.txt", ".exe", ""}

(***************************************************************************)
(* The calls.                                                              *)
(***************************************************************************)
CompareVersions ==
    /\ cmp' = [called |-> TRUE] @@ _is_newer_version(version1, version2)
    /\ UNCHANGED <<version1, version2, machine, arch, self, reply, last, memo, fs, dl>>

ResolveArchitecture ==
    /\ arch' = _get_architecture(machine)
    /\ UNCHANGED <<version1, version2, cmp, machine, self, reply, last, memo, fs, dl>>

\* check_for_updates, with the answer the network has ready for its request.
CheckForUpdates ==
    /\ dl.pc = "idle" /\ reply.exc # "pending"
    /\ LET c == check_for_updates(self, machine, reply)
       IN  /\ last' = [op |-> "check_for_updates", answer |-> reply,
                       result |-> c.result, raised |-> c.raised,
                       requests |-> c.requests, compared |-> c.compared,
                       latest_version |-> c.latest_version,
                       scanned |-> c.scanned]
           /\ self' = c.attributes
    /\ reply' = NoAnswer
    /\ UNCHANGED <<version1, version2, cmp, machine, arch, memo, fs, dl>>

\* The caller calls check_for_updates: the network settles what the call's
\* request will be answered (the repository's latest release, or a failure).
\* No call has completed while this one is in progress.
Request ==
    /\ dl.pc = "idle" /\ reply.exc = "pending"
    /\ \E a \in LiveAnswers : reply' = a
    /\ last' = [op |-> "none"]
    /\ UNCHANGED <<version1, version2, cmp, machine, arch, self, memo, fs, dl>>

\* The caller puts aside what the check it has just made returned, to compare
\* it with a later one.
Remember ==
    /\ last.op = "check_for_updates"
    /\ memo' = last
    /\ last' = [op |-> "none"]
    /\ UNCHANGED <<version1, version2, cmp, machine, arch, self, reply, fs, dl>>

DownloadUpdate ==
    \E update_info \in UpdateInfos, progress_callback \in BOOLEAN :
        DownloadBegin(update_info, progress_callback)

\* subprocess.run cannot start a file that does not exist.
InstallUpdate ==
    /\ dl.pc = "idle" /\ reply.exc = "pending"
    /\ \E installer_path \in InstallPaths, outcome \in SpawnOutcomes :
          /\ (installer_path \in Paths /\ ~exists(fs, installer_path))
                => outcome.exc = "OSError"
          /\ last' = [op |-> "install_update", installer_path |-> installer_path,
                      outcome |-> outcome]
                         @@ install_update(installer_path, outcome)
    /\ UNCHANGED <<version1, version2, cmp, machine, arch, self, reply, memo, fs, dl>>

CleanupDownload ==
    /\ dl.pc = "idle" /\ reply.exc = "pending"
    /\ \E file_path \in Paths :
          LET c == cleanup_download(fs, file_path)
          IN  /\ fs' = c.files
              /\ last' = [op |-> "cleanup_download", file_path |-> file_path,
                          raised |-> c.raised, absorbed |-> c.absorbed,
                          before |-> fs]
    /\ UNCHANGED <<version1, version2, cmp, machine, arch, self, reply, memo, dl>>

\* Another process opens a downloaded file (the installer is started and
\* keeps running), and later lets go of it.
Hold ==
    /\ dl.pc = "idle" /\ reply.exc = "pending"
    /\ \E p \in Paths : fs[p] = "file" /\ fs' = [fs EXCEPT ![p] = "locked"]
    /\ UNCHANGED <<version1, version2, cmp, machine, arch, self, reply, last, memo, dl>>

LetGo ==
    /\ dl.pc = "idle" /\ reply.exc = "pending"
    /\ \E p \in Paths : fs[p] = "locked" /\ fs' = [fs EXCEPT ![p] = "file"]
    /\ UNCHANGED <<version1, version2, cmp, machine, arch, self, reply, last, memo, dl>>

(***************************************************************************)
(* Specifications.                                                         *)
(***************************************************************************)
\* The state after HeliumUpdater("1.0.0.0") has been constructed on a host.
Init ==
    /\ version1 = "" /\ version2 = "" /\ cmp = NoCmp /\ arch = NoArch
    /\ machine \in {"AMD64", "ARM64"}
    /\ self = __init__("1.0.0.0", "imputnet", "helium-windows")
    /\ reply = NoAnswer
    /\ last = NoCall /\ memo = NoCall
    /\ fs = [p \in Paths |-> "absent"]
    /\ dl = IdleDl

Next ==
    \/ Request
    \/ CheckForUpdates
    \/ DownloadUpdate
    \/ DownloadConnect
    \/ DownloadOpen
    \/ DownloadRead
    \/ InstallUpdate
    \/ CleanupDownload
    \/ Hold
    \/ LetGo

Spec == Init /\ [][Next]_vars

\* One _is_newer_version call on every pair of version strings.
InitVersion ==
    /\ version1 \in VersionStrings /\ version2 \in VersionStrings
    /\ cmp = NoCmp /\ arch = NoArch /\ machine = "AMD64"
    /\ self = __init__("1.0.0.0", "imputnet", "helium-windows")
    /\ reply = NoAnswer
    /\ last = NoCall /\ memo = NoCall
    /\ fs = [p \in Paths |-> "absent"]
    /\ dl = IdleDl

SpecVersion == InitVersion /\ [][CompareVersions]_vars

\* One _get_architecture call on every machine string.
InitArch ==
    /\ version1 = "" /\ version2 = "" /\ cmp = NoCmp /\ arch = NoArch
    /\ machine \in MachineStrings
    /\ self = __init__("1.0.0.0", "imputnet", "helium-windows")
    /\ reply = NoAnswer
    /\ last = NoCall /\ memo = NoCall
    /\ fs = [p \in Paths |-> "absent"]
    /\ dl = IdleDl

SpecArch == InitArch /\ [][ResolveArchitecture]_vars

\* check_for_updates on every updater, host and answer.
InitCheck ==
    /\ version1 = "" /\ version2 = "" /\ cmp = NoCmp /\ arch = NoArch
    /\ machine \in Hosts
    /\ self \in Updaters
    /\ reply \in Answers
    /\ last = NoCall /\ memo = NoCall
    /\ fs = [p \in Paths |-> "absent"]
    /\ dl = IdleDl

SpecCheck == InitCheck /\ [][CheckForUpdates]_vars

\* Repeated check_for_updates calls while the server's answer changes.
NextRepeat == Request \/ CheckForUpdates \/ Remember

SpecRepeat == Init /\ [][NextRepeat]_vars

(***************************************************************************)
(* What the claims speak of, stated apart from the code above.             *)
(***************************************************************************)
\* v up to its first '-'.
BeforeDash(v) ==
    IF \E i \in 1..Len(v) : Ch(v, i) = "-"
    THEN SubSeq(v, 1, (CHOOSE i \in 1..Len(v) :
                          /\ Ch(v, i) = "-"
                          /\ \A j \in 1..(i - 1) : Ch(v, j) # "-") - 1)
    ELSE v

\* The part of v before the first '-' is a dot-separated sequence of
\* non-negative integers.
WellFormed(v) ==
    LET segs == split(BeforeDash(v), ".")
    IN  \A i \in 1..Len(segs) :
            /\ segs[i] # ""
            /\ \A j \in 1..Len(segs[i]) : Ch(segs[i], j) \in Digits

\* The integer sequence of a well-formed v, padded with zeros to length n.
PaddedIntsOf(v, n) ==
    LET segs == split(BeforeDash(v), ".")
    IN  [i \in 1..n |-> IF i <= Len(segs) THEN DecimalValue(segs[i], 0) ELSE 0]

SegmentCount(v) == Len(split(BeforeDash(v), "."))

\* a > b in left-to-right lexicographic order, for a and b of one length.
LexGreater(a, b) ==
    \E i \in 1..Len(a) : a[i] > b[i] /\ \A j \in 1..(i - 1) : a[j] = b[j]

\* v is well formed, and so is w, and v's padded sequence is the greater.
StrictlyNewer(v, w) ==
    /\ WellFormed(v) /\ WellFormed(w)
    /\ LET n == max(SegmentCount(v), SegmentCount(w))
       IN  LexGreater(PaddedIntsOf(v, n), PaddedIntsOf(w, n))

\* a and b are the same string but for the case of their letters.
SameButCase(a, b) ==
    /\ Len(a) = Len(b)
    /\ \A i \in 1..Len(a) : UpperCh(Ch(a, i)) = UpperCh(Ch(b, i))

\* The architecture tag a machine string stands for.
ResolvedArch(m) ==
    IF SameButCase(m, "arm64") \/ SameButCase(m, "aarch64") THEN "arm64" ELSE "x64"

\* The candidate version of an answer: its tag without leading 'v's.
Candidate(answer) == lstrip(Get(answer.json, "tag_name", ""), "v")

\* The names of the assets of an answer.
AssetNames(answer) ==
    LET assets == Get(answer.json, "assets", <<>>)
    IN  { Get(assets[i], "name", "") : i \in 1..Len(assets) }

\* The lower-cased name carries the marker of architecture a in one of the
\* forms _<a>-, -<a>-, _<a>_.
CarriesMarker(name, a) ==
    \E form \in {<<"_", "-">>, <<"-", "-">>, <<"_", "_">>} :
        Contains(lower(name), form[1] \o a \o form[2])

IsInstallerName(name) == EndsWith(lower(name), "-installer.exe")
IsArchiveName(name) == EndsWith(lower(name), "-windows.zip")

Checked == last.op = "check_for_updates"
Downloaded == last.op = "download_update"
Installed == last.op = "install_update"

(***************************************************************************)
(* The claims.                                                             *)
(***************************************************************************)
\* C1: for well-formed version strings, _is_newer_version(version1, version2)
\* returns true exactly when version1's integer sequence (pre-release suffix
\* dropped, both padded with zeros to one length) is lexicographically
\* greater than version2's.
C1_NewerIffPaddedGreater ==
    (cmp.called /\ WellFormed(version1) /\ WellFormed(version2)) =>
        /\ cmp.raised = "none"
        /\ cmp.value = StrictlyNewer(version1, version2)

\* A comparison that needed the padding and the suffix to be dropped: the
\* shorter, suffixed version is the newer one.
C1_Witness ==
    /\ cmp.called /\ cmp.value
    /\ WellFormed(version1) /\ WellFormed(version2)
    /\ SegmentCount(version1) < SegmentCount(version2)
    /\ BeforeDash(version1) # version1

\* C2: when a segment of either version string is not an integer (an empty
\* segment and the empty string included), _is_newer_version returns false
\* and raises nothing.
C2_UnparsableIsNotNewer ==
    (cmp.called /\ (~WellFormed(version1) \/ ~WellFormed(version2))) =>
        /\ cmp.raised = "none"
        /\ cmp.value = FALSE

\* A well-formed version compared with the empty string, and one compared
\* with a version that has an empty segment.
C2_Witness ==
    /\ cmp.called /\ ~cmp.value /\ cmp.raised = "none"
    /\ version1 = "10" /\ version2 \in {"", "1."}

\* C3: check_for_updates returns a result only when the candidate is
\* strictly newer than the current version and some asset carries the
\* host's architecture marker with a recognised suffix; no asset with the
\* marker, or a tag that is not newer, gives no result.
C3_ResultOnlyWhenNewerAndMatching ==
    Checked =>
        LET cand == Candidate(last.answer)
            names == AssetNames(last.answer)
            a == ResolvedArch(machine)
        IN  /\ last.result # None =>
                  /\ StrictlyNewer(cand, self.current_version)
                  /\ \E n \in names :
                        CarriesMarker(n, a) /\ (IsInstallerName(n) \/ IsArchiveName(n))
            /\ (~\E n \in names : CarriesMarker(n, a)) =>
                  (last.result = None /\ last.raised = "none")
            /\ ~StrictlyNewer(cand, self.current_version) =>
                  (last.result = None /\ last.raised = "none")

\* A newer tag whose assets all lack the host's marker: no result.
C3_Witness ==
    /\ Checked /\ last.result = None
    /\ StrictlyNewer(Candidate(last.answer), self.current_version)
    /\ AssetNames(last.answer) # {}
    /\ \A n \in AssetNames(last.answer) :
          ~CarriesMarker(n, ResolvedArch(machine))
          /\ (IsInstallerName(n) \/ IsArchiveName(n))

\* C4: for a newer tag, the result carries the candidate version and the
\* resolved architecture, its installer is populated exactly when an asset
\* with the marker ends with '-installer.exe' and its archive exactly when
\* one ends with '-windows.zip'; the mocked 1.2.3.4 release checked from
\* 1.0.0.0 on x64 has both.
C4_ResultFields ==
    (Checked /\ StrictlyNewer(Candidate(last.answer), self.current_version)) =>
        LET names == AssetNames(last.answer)
            a == ResolvedArch(machine)
            installers == { n \in names : CarriesMarker(n, a) /\ IsInstallerName(n) }
            archives == { n \in names : CarriesMarker(n, a) /\ IsArchiveName(n) }
        IN  /\ (last.result # None) = (installers # {} \/ archives # {})
            /\ last.result # None =>
                  /\ last.result.version = Candidate(last.answer)
                  /\ last.result.architecture = a
                  /\ (last.result.installer # None) = (installers # {})
                  /\ (last.result.zip_package # None) = (archives # {})
                  /\ last.result.installer # None =>
                        Get(last.result.installer, "name", "") \in installers
                  /\ last.result.zip_package # None =>
                        Get(last.result.zip_package, "name", "") \in archives
            /\ (/\ last.answer = Answer(MockRelease)
                /\ self.current_version = "1.0.0.0"
                /\ a = "x64") =>
                  /\ last.result # None
                  /\ last.result.version = "1.2.3.4"
                  /\ last.result.installer = X64Installer
                  /\ last.result.zip_package = X64Archive
                  /\ last.result.architecture = "x64"

\* The mocked release of the test, checked from 1.0.0.0 on an x64 host.
C4_Witness ==
    /\ Checked /\ last.answer = Answer(MockRelease)
    /\ self.current_version = "1.0.0.0" /\ machine = "AMD64"
    /\ last.result # None

\* C5: _get_architecture returns 'x64' or 'arm64' for every machine string:
\* 'arm64' for arm64 and aarch64 in any letter case, 'x64' for amd64 and
\* x86_64 in any letter case and for every other string.
C5_ArchitectureTotal ==
    arch # NoArch =>
        /\ arch \in {"x64", "arm64"}
        /\ (SameButCase(machine, "amd64") \/ SameButCase(machine, "x86_64")) => arch = "x64"
        /\ (SameButCase(machine, "arm64") \/ SameButCase(machine, "aarch64")) => arch = "arm64"
        /\ (~SameButCase(machine, "arm64") /\ ~SameButCase(machine, "aarch64")) => arch = "x64"

\* An ARM host that reports its machine in upper case.
C5_Witness == machine = "ARM64" /\ arch = "arm64"

\* C6: after a download_update call in which the transfer raised, the
\* destination file does not exist, the file handle is released and the call
\* has returned None, not raised.
C6_FailedTransferLeavesNothing ==
    (Downloaded /\ last.failed_at # "none") =>
        /\ ~exists(fs, last.path)
        /\ last.handle # "open"
        /\ last.returned = "None"

\* The progress callback's invocations in transfer t: one per chunk, each with
\* the declared length as second argument, the first argument never
\* decreasing.
OncePerChunkNeverDecreasing(t) ==
    /\ Len(t.calls) = t.chunks
    /\ \A i \in 1..Len(t.calls) : t.calls[i][2] = t.total_size
    /\ \A i \in 1..(Len(t.calls) - 1) : t.calls[i][1] <= t.calls[i + 1][1]

\* C7 as stated: in a download with a declared length N and a callback, the
\* callback is invoked once per chunk with (bytes so far, N), the first
\* argument never decreases and that of the last invocation is N.
C7_ProgressEndsAtLength ==
    (Downloaded /\ last.declared /\ last.callback) =>
        /\ OncePerChunkNeverDecreasing(last)
        /\ last.calls # <<>> => last.calls[Len(last.calls)][1] = last.total_size

\* C7 as amended: the same, during the transfer and after it, except that the
\* first argument of the last invocation is N when the transfer has ended
\* without an exception after all N declared bytes.
C7_ProgressEndsAtLengthWhenComplete ==
    /\ (dl.pc = "read" /\ dl.declared /\ dl.callback) =>
          OncePerChunkNeverDecreasing(dl)
    /\ (Downloaded /\ last.declared /\ last.callback) =>
          /\ OncePerChunkNeverDecreasing(last)
          /\ (last.returned = "path" /\ last.total_size > 0
                /\ last.downloaded = last.total_size) =>
                (/\ last.calls # <<>>
                 /\ last.calls[Len(last.calls)][1] = last.total_size)

\* A complete download of the largest body in more than one chunk.
C7_Witness ==
    /\ Downloaded /\ last.declared /\ last.callback /\ last.returned = "path"
    /\ last.total_size = MaxBody /\ last.downloaded = MaxBody
    /\ Len(last.calls) > 1

\* C8: install_update returns true exactly when the path ends with '.exe' and
\* the process exits with status zero; everything else returns false, nothing
\* is raised, and no process is spawned for a path that does not end with
\* '.exe'.
C8_InstallTrueIffExeExitsZero ==
    Installed =>
        LET exe == EndsWith(last.installer_path, ".exe")
        IN  /\ last.raised = "none"
            /\ last.returned =
                  (exe /\ last.outcome.exc = "none" /\ last.outcome.returncode = 0)
            /\ ~exe => last.runs = <<>>
            /\ exe => last.runs = <<[argv |-> <<last.installer_path, "/S">>,
                                     timeout |-> InstallTimeout]>>

\* A downloaded installer that ran and exited with status zero.
C8_Witness ==
    /\ Installed /\ last.returned
    /\ last.installer_path = local_path(X64Installer.name)

\* C9: when the release query fails, check_for_updates returns None without
\* raising, compares no version, examines no asset and has issued just the
\* one request.
C9_FailedQueryGivesNoResult ==
    (Checked /\ last.answer.exc # "none") =>
        /\ last.result = None /\ last.raised = "none"
        /\ ~last.compared /\ last.scanned = 0
        /\ Len(last.requests) = 1

\* A query answered with a non-2xx status.
C9_Witness == Checked /\ last.answer.exc = "HTTPError" /\ last.result = None

\* C10: no check_for_updates call changes the object's attributes, and two
\* calls that get the same answer on the same host return the same.
C10_StatelessIdempotent ==
    /\ [][self' = self]_vars
    /\ []((memo.op = "check_for_updates" /\ Checked /\ memo.answer = last.answer) =>
            (memo.result = last.result /\ memo.raised = last.raised))

\* Two calls with the same answer, both returning an update.
C10_Witness ==
    /\ memo.op = "check_for_updates" /\ Checked
    /\ memo.answer = last.answer /\ last.result # None
    /\ self = __init__("1.0.0.0", "imputnet", "helium-windows")


\* A step in which a cleanup_download call returns or raises.
CleanupCompletes == last'.op = "cleanup_download" /\ last' # last

\* C11: cleanup_download never raises, whether the file exists, does not
\* exist or cannot be deleted; a file that existed and could be deleted is
\* gone afterwards, and in every other case the file system is as it was.
C11_CleanupNeverRaises ==
    [][CleanupCompletes =>
          LET p == last'.file_path
          IN  /\ last'.raised = "none"
              /\ last'.before = fs
              /\ IF fs[p] = "file"
                 THEN fs' = [fs EXCEPT ![p] = "absent"]
                 ELSE fs' = fs]_vars

\* A cleanup of a file that another process holds open: PermissionError is
\* absorbed and the file stays.
C11_Witness ==
    /\ last.op = "cleanup_download"
    /\ last.before[last.file_path] = "locked"
    /\ last.absorbed = "PermissionError"
    /\ fs[last.file_path] = "locked"


\* A tag with its leading 'v' removed if it has one.
WithoutLeadingV(tag) ==
    IF tag # "" /\ Ch(tag, 1) = "v" THEN SubSeq(tag, 2, Len(tag)) ELSE tag

\* C12: when the request is answered with a release, the candidate version is
\* the release tag with its leading 'v' removed if it has one and the tag
\* unchanged otherwise (the empty string when the tag is missing); an empty
\* candidate gives no result without a version comparison.
C12_CandidateIsTagWithoutLeadingV ==
    (Checked /\ last.answer.exc = "none" /\ Truthy(last.answer.json)) =>
        /\ last.latest_version =
              WithoutLeadingV(Get(last.answer.json, "tag_name", ""))
        /\ last.latest_version = "" =>
              (last.result = None /\ ~last.compared)


\* Whether a result carries an asset under a key, and the asset that the
\* stated preference picks from a result: the installer if it carries one,
\* else the archive if it carries one, else none.
Carries(info, key) == Get(info, key, None) # None /\ Get(info, key, None) # <<>>
Preferred(info) ==
    IF Carries(info, "installer") THEN info.installer
    ELSE IF Carries(info, "zip_package") THEN info.zip_package
    ELSE None
HasUrl(asset) == asset # None /\ Get(asset, "browser_download_url", "") # ""

\* A step in which download_update returns before its try block.
DownloadReturnsAtOnce ==
    dl.pc = "idle" /\ last'.op = "download_update" /\ last' # last

\* C13: a download in progress is the download of the installer if the result
\* carries one and of the archive only if it carries no installer; when the
\* result carries neither, or the preferred asset has no URL, the call
\* returns None without a request and without a change to the file system,
\* also when the archive has a URL and the installer has none.
C13_InstallerPreferredNoFallback ==
    /\ [](dl.pc # "idle" =>
            LET asset == Preferred(dl.update_info)
            IN  /\ HasUrl(asset)
                /\ dl.url = asset.browser_download_url
                /\ dl.path = local_path(asset.name))
    /\ [][(DownloadReturnsAtOnce /\ ~HasUrl(Preferred(last'.update_info))) =>
            /\ last'.returned = "None" /\ last'.raised = "none"
            /\ last'.requests = 0
            /\ fs' = fs
            /\ dl'.pc = "idle"]_vars

\* A result whose installer has no URL and whose archive has one: the call
\* has returned None without a request.
C13_Witness ==
    /\ Downloaded
    /\ Carries(last.update_info, "installer")
    /\ ~HasUrl(last.update_info.installer)
    /\ HasUrl(Get(last.update_info, "zip_package", None))
    /\ last.returned = "None" /\ last.requests = 0


\* C14: after a download_update call whose transfer ended with an exception,
\* no file exists at the destination path, also when the exception came
\* before the destination was opened and the file there was left by an
\* earlier successful download.
C14_FailedDownloadDeletesEarlierFile ==
    (Downloaded /\ last.failed_at # "none") => fs[last.path] = "absent"

====
